---- MODULE Spec2Model ----
(***************************************************************************)
(* Memory-MCP: the SQLite-backed memory graph of memory_core.py, its       *)
(* access tracking and LIKE search, and the protocol adapters' entry       *)
(* points to it.                                                           *)
(*                                                                         *)
(* Text is modelled as a sequence of one-character strings, so that the    *)
(* conversions the program applies to what it stores (json.dumps and       *)
(* json.loads of the context, datetime.isoformat and fromisoformat of the  *)
(* timestamps, SQLite's LIKE and its BINARY ordering of TEXT columns) are  *)
(* computed, character by character, as the libraries compute them.       *)
(***************************************************************************)
EXTENDS Integers, Sequences, FiniteSets, TLC

(***************************************************************************)
(* Bounds of the model.                                                    *)
(***************************************************************************)
\* rows the memory_nodes table may hold
MaxNodes == 2
\* last reading of the wall clock, in ticks
MaxTime == 2
\* clock ticks per second: a tick is 1/TicksPerSecond of a second
TicksPerSecond == 2
\* database connections that may run get_memory at the same time
NumConns == 2
\* background loops (a DreamerAI each, in a process of its own) that may
\* run against one database
NumLoops == 2
\* successful lookups counted per node
MaxAccess == 2
\* nodes foreground callers store per project
MaxMembers == 3
\* nodes foreground callers store outside the project, per context
MaxOthers == 1

(***************************************************************************)
(* Characters and text.                                                    *)
(***************************************************************************)
Digits == <<"0", "1", "2", "3", "4", "5", "6", "7", "8", "9">>

\* the ASCII code of the characters of a timestamp column (SQLite compares
\* TEXT with memcmp under the default BINARY collation)
Ord(c) ==
    CASE c = "+" -> 43 [] c = "-" -> 45 [] c = "." -> 46
      [] c = "0" -> 48 [] c = "1" -> 49 [] c = "2" -> 50 [] c = "3" -> 51
      [] c = "4" -> 52 [] c = "5" -> 53 [] c = "6" -> 54 [] c = "7" -> 55
      [] c = "8" -> 56 [] c = "9" -> 57 [] c = ":" -> 58

RECURSIVE TextLess(_, _)
\* a < b for two TEXT values: bytewise, a proper prefix sorting first
TextLess(a, b) ==
    IF b = <<>> THEN FALSE
    ELSE IF a = <<>> THEN TRUE
    ELSE IF Ord(Head(a)) # Ord(Head(b)) THEN Ord(Head(a)) < Ord(Head(b))
    ELSE TextLess(Tail(a), Tail(b))

\* needle occurs in hay as a contiguous, case-sensitive run of characters
Contains(hay, needle) ==
    \E i \in 1..(Len(hay) - Len(needle) + 1) :
        SubSeq(hay, i, i + Len(needle) - 1) = needle

(***************************************************************************)
(* Timestamps: datetime.now(timezone.utc) read in ticks; the columns hold  *)
(* datetime.isoformat() text.  The fields above the seconds are the same   *)
(* for every reading of the modelled window and are left out.              *)
(***************************************************************************)
\* datetime.isoformat(): seconds on two digits, the fraction only when the
\* microsecond field is not zero, then the UTC offset
IsoFormat(t) ==
    LET sec  == t \div TicksPerSecond
        frac == t % TicksPerSecond
    IN  <<Digits[(sec \div 10) + 1], Digits[(sec % 10) + 1]>>
        \o (IF frac = 0 THEN <<>>
            ELSE <<".", Digits[((10 * frac) \div TicksPerSecond) + 1]>>)
        \o <<"+", "0", "0", ":", "0", "0">>

\* the value of a decimal digit
DigitValue(c) == CHOOSE d \in 0..9 : Digits[d + 1] = c

\* datetime.fromisoformat() on a stored column
FromIsoFormat(s) ==
    LET sec  == 10 * DigitValue(s[1]) + DigitValue(s[2])
        frac == IF s[3] = "."
                THEN CHOOSE f \in 0..(TicksPerSecond - 1) :
                         Digits[((10 * f) \div TicksPerSecond) + 1] = s[4]
                ELSE 0
    IN  sec * TicksPerSecond + frac

(***************************************************************************)
(* Context values and their JSON text.  A Python value is <<tag, text>>:   *)
(* <<"str", s>> the string s, <<"int", digits>> an integer, <<"bool", w>>  *)
(* with w the word true or false.  A context (a dict) is a sequence of     *)
(* <<key, value>> pairs in insertion order, its keys pairwise distinct.    *)
(***************************************************************************)
RECURSIVE JsonEscape(_)
\* the body of a JSON string: json.dumps escapes the quote and the backslash
JsonEscape(s) ==
    IF s = <<>> THEN <<>>
    ELSE (IF Head(s) = "\"" THEN <<"\\", "\"">>
          ELSE IF Head(s) = "\\" THEN <<"\\", "\\">>
          ELSE <<Head(s)>>) \o JsonEscape(Tail(s))

\* a serializer that writes every value with str(), strings unquoted
JsonDumpsValueUnquoted(v) == v[2]

\* json.dumps of one value
JsonDumpsValue(v) ==
    IF v[1] = "str" THEN <<"\"">> \o JsonEscape(v[2]) \o <<"\"">> ELSE v[2]

RECURSIVE JsonDumpsItems(_)
\* the items of an object, joined by the default separators ", " and ": "
JsonDumpsItems(d) ==
    IF d = <<>> THEN <<>>
    ELSE <<"\"">> \o JsonEscape(d[1][1]) \o <<"\"", ":", " ">>
         \o JsonDumpsValue(d[1][2])
         \o (IF Len(d) > 1 THEN <<",", " ">> ELSE <<>>)
         \o JsonDumpsItems(Tail(d))

\* json.dumps(context)
JsonDumps(d) == <<"{">> \o JsonDumpsItems(d) \o <<"}">>

RECURSIVE JsonScanString(_, _, _)
\* scans a JSON string from the character after its opening quote:
\* <<the string, the position after its closing quote>>
JsonScanString(s, i, acc) ==
    IF s[i] = "\"" THEN <<acc, i + 1>>
    ELSE IF s[i] = "\\" THEN JsonScanString(s, i + 2, Append(acc, s[i + 1]))
    ELSE JsonScanString(s, i + 1, Append(acc, s[i]))

RECURSIVE JsonScanWord(_, _, _)
\* scans a number or a literal up to the next delimiter
JsonScanWord(s, i, acc) ==
    IF s[i] \in {",", "}", " "} THEN <<acc, i>>
    ELSE JsonScanWord(s, i + 1, Append(acc, s[i]))

\* one value at position i: <<the value, the position after it>>
JsonLoadsValue(s, i) ==
    IF s[i] = "\""
    THEN LET r == JsonScanString(s, i + 1, <<>>) IN <<<<"str", r[1]>>, r[2]>>
    ELSE LET r == JsonScanWord(s, i, <<>>)
         IN  <<<<(IF r[1][1] \in {"t", "f"} THEN "bool" ELSE "int"), r[1]>>, r[2]>>

RECURSIVE JsonSkipSpace(_, _)
\* the decoder skips white space between tokens
JsonSkipSpace(s, i) == IF s[i] = " " THEN JsonSkipSpace(s, i + 1) ELSE i

RECURSIVE JsonLoadsItems(_, _, _)
\* the members of an object from position i, appended to acc
JsonLoadsItems(s, i, acc) ==
    IF s[i] = "}" THEN acc
    ELSE LET k  == JsonScanString(s, i + 1, <<>>)
             vi == JsonSkipSpace(s, JsonSkipSpace(s, k[2]) + 1)
             v  == JsonLoadsValue(s, vi)
             j  == JsonSkipSpace(s, v[2])
             n  == IF s[j] = "," THEN JsonSkipSpace(s, j + 1) ELSE j
         IN  JsonLoadsItems(s, n, Append(acc, <<k[1], v[1]>>))

\* json.loads of a stored context column
JsonLoads(s) == JsonLoadsItems(s, JsonSkipSpace(s, 2), <<>>)

\* == on two dicts: the same keys with the same values, whatever the order
DictEq(a, b) == {a[i] : i \in DOMAIN a} = {b[i] : i \in DOMAIN b}

\* dict.get(key): the value under key, or <<"none", <<>>>> for None
DictGet(d, key) ==
    IF \E i \in DOMAIN d : d[i][1] = key
    THEN d[CHOOSE i \in DOMAIN d : d[i][1] = key][2]
    ELSE <<"none", <<>>>>

(***************************************************************************)
(* SQLite's LIKE: % matches any run of characters, _ any one character,    *)
(* and ASCII letters match whatever their case; there is no escape         *)
(* character unless the statement names one.                               *)
(***************************************************************************)
\* the ASCII letters
UpperCase == <<"A", "B", "C", "D", "E", "F", "G", "H", "I", "J", "K", "L", "M",
               "N", "O", "P", "Q", "R", "S", "T", "U", "V", "W", "X", "Y", "Z">>
LowerCase == <<"a", "b", "c", "d", "e", "f", "g", "h", "i", "j", "k", "l", "m",
               "n", "o", "p", "q", "r", "s", "t", "u", "v", "w", "x", "y", "z">>

\* the lower-case letter of each upper-case letter
ToLower ==
    [c \in {UpperCase[i] : i \in DOMAIN UpperCase} |->
       LowerCase[CHOOSE i \in DOMAIN UpperCase : UpperCase[i] = c]]

\* the case folding LIKE applies to ASCII letters
LikeFold(c) == IF c \in DOMAIN ToLower THEN ToLower[c] ELSE c

RECURSIVE LikeFrom(_, _, _, _)
\* text from position j on matches pattern from position i on
LikeFrom(pattern, i, text, j) ==
    IF i > Len(pattern) THEN j > Len(text)
    ELSE IF pattern[i] = "%"
         THEN \E k \in j..(Len(text) + 1) : LikeFrom(pattern, i + 1, text, k)
    ELSE /\ j <= Len(text)
         /\ pattern[i] = "_" \/ LikeFold(pattern[i]) = LikeFold(text[j])
         /\ LikeFrom(pattern, i + 1, text, j + 1)

\* text LIKE pattern
Like(pattern, text) == LikeFrom(pattern, 1, text, 1)

\* the pattern search_memories binds: f"%{query}%"
LikePattern(query) == <<"%">> \o query \o <<"%">>

(***************************************************************************)
(* State.                                                                  *)
(***************************************************************************)
VARIABLES
    nodes,      \* the memory_nodes table: its rows, in insertion order
    relationships,  \* the memory_relationships table: its rows
    now,        \* the wall clock datetime.now(timezone.utc) reads
    conn,       \* per connection: the get_memory call in flight on it
    ret,        \* what the last step returned to its caller, with the
                \* call's arguments (NoRet when the step returned nothing)
    stored,     \* history: per row, what store_memory was called with
    gets,       \* history: per row, the get_memory calls that returned it
    seen,       \* history: per row, the access_count values returned
    dreamer,    \* per background loop: its DreamerAI and the task running
                \* its start() coroutine
    manager,    \* per background loop: its DreamerManager
    discovery   \* per background loop: the working set of the relationship
                \* discovery of its cycle and the pairs scored from it

vars == <<nodes, relationships, now, conn, ret, stored, gets, seen, dreamer,
         manager, discovery>>

\* the state of the background loops
svars == <<dreamer, manager, discovery>>

Conns == 1..NumConns

\* the default of MemoryNode.priority_score, 1.0
DefaultPriority == 1

(***************************************************************************)
(* Inputs.                                                                 *)
(***************************************************************************)
EmptyText == <<>>

\* (content, context) pairs stored through the core: a context holding a
\* string that needs escaping, an integer and a boolean; an empty context;
\* an empty content
StoreInputs ==
    { <<<<"a", "b">>, << <<<<"k">>, <<"str", <<"a", "\"", "\\">>>>>>,
                         <<<<"n">>, <<"int", <<"1", "2">>>>>>,
                         <<<<"t">>, <<"bool", <<"t", "r", "u", "e">>>>>> >> >>,
      <<<<"A", "b">>, <<>>>>,
      <<EmptyText, <<>>>> }

\* (content, context) pairs stored before a search: contents that differ
\* in case only, a content holding LIKE's one-character wildcard, and a
\* context whose JSON text holds a query
SearchInputs ==
    { <<<<"a", "b">>, <<>>>>,
      <<<<"A", "b">>, <<>>>>,
      <<<<"a", "_">>, << <<<<"k">>, <<"str", <<"a", "b">>>>>> >> >> }

\* the queries callers search for
Queries == { EmptyText, <<"a", "b">>, <<"a", "_">> }

\* the limits callers pass to the core's query_memories
CoreLimits == {0, 1, 2}

\* the limits callers pass to a protocol adapter
AdapterLimits == {-1, 0, 1, 100, 101}

(***************************************************************************)
(* MemoryNode and the rows of memory_nodes.                                *)
(***************************************************************************)
\* MemoryNode(content=content, context=context or {}): the defaults of the
\* other fields; created_at and last_accessed_at are two readings of the
\* clock, t1 and then t2
NewMemoryNode(id, content, context, t1, t2) ==
    [ id               |-> id,
      content          |-> content,
      context          |-> context,
      created_at       |-> t1,
      last_accessed_at |-> t2,
      access_count     |-> 0,
      priority_score   |-> DefaultPriority,
      node_type        |-> "normal" ]

\* the row store_memory inserts for a MemoryNode
RowOf(memory) ==
    [ id               |-> memory.id,
      content          |-> memory.content,
      context          |-> JsonDumps(memory.context),
      created_at       |-> IsoFormat(memory.created_at),
      last_accessed_at |-> IsoFormat(memory.last_accessed_at),
      access_count     |-> memory.access_count,
      priority_score   |-> memory.priority_score,
      node_type        |-> memory.node_type ]

\* the context of a row read back: json.loads(row[2]) if row[2] else {}
ContextOfRow(row) == IF row.context = <<>> THEN <<>> ELSE JsonLoads(row.context)

\* the MemoryNode search_memories builds from a row
NodeOfRow(row) ==
    [ id               |-> row.id,
      content          |-> row.content,
      context          |-> ContextOfRow(row),
      created_at       |-> FromIsoFormat(row.created_at),
      last_accessed_at |-> FromIsoFormat(row.last_accessed_at),
      access_count     |-> row.access_count,
      priority_score   |-> row.priority_score,
      node_type        |-> row.node_type ]

\* the ids of the stored rows
Ids == { nodes[i].id : i \in DOMAIN nodes }

\* the position of the row with this id (the primary key)
RowIndex(id) == CHOOSE i \in DOMAIN nodes : nodes[i].id = id

\* an identifier generator that repeats itself
NewIdRepeats == IF nodes = <<>> THEN 1 ELSE nodes[Len(nodes)].id

\* str(uuid.uuid4()): an identifier no row has
NewId == Len(nodes) + 1

(***************************************************************************)
(* The results of the calls.                                               *)
(***************************************************************************)
NoRet == [ op |-> "none", via |-> "none", id |-> 0, query |-> EmptyText,
           asked |-> 0, limit |-> 0, found |-> FALSE, out |-> <<>>,
           after |-> 0 ]

IdleConn == [ pc |-> "idle", id |-> 0, row |-> <<>>, now |-> 0 ]

Loops == 1..NumLoops

\* last_run = None
None == -1

\* history of the last run of _create_summaries: from, the rows stored
\* when it read its working set; due, the groups of 3 memories or more in
\* that working set whose project had no summary stored by a worker;
\* swept, from plus the summaries the run stored; complete, the run went
\* through all its groups
NoRun == [ from |-> 0, due |-> {}, swept |-> 0, complete |-> FALSE ]

\* a loop's DreamerAI before it is constructed.  Of the DreamerAI: enabled,
\* interval, running, last_run.  Of the task (or the bare coroutine) that
\* runs start(): pc, the statement it is at; sleep, the argument of the
\* asyncio.sleep it is suspended in; groups, the project groups
\* _create_summaries has still to go through; must_cancel, a cancel()
\* that was requested and not yet delivered.  History: failed, a cycle
\* has raised; stopped, stop() was called; run
NoDreamer ==
    [ exists |-> FALSE, enabled |-> FALSE, interval |-> 0, running |-> FALSE,
      last_run |-> None, pc |-> "none", sleep |-> 0, groups |-> <<>>,
      must_cancel |-> FALSE, failed |-> FALSE, stopped |-> FALSE,
      run |-> NoRun ]

\* _discover_relationships has not run: sample, the sample_memories of its
\* last run; log, the pairs that run drew from them, in the order drawn,
\* each with its score and, where the score passed the threshold, its type
NoDiscovery == [ sample |-> <<>>, log |-> <<>> ]

\* a DreamerManager before start(): self.dreamer = None, self.task = None;
\* enabled is config.get("enabled", True); pc is where its start() and
\* stop() are, or left for a loop whose manager holds another loop's
\* DreamerAI and task.  History: at, where the task was when stop() was
\* called
NoManager ==
    [ enabled |-> TRUE, dreamer |-> FALSE, task |-> FALSE, pc |-> "idle",
      at |-> "none" ]

\* the configurations a DreamerManager is constructed with, after the
\* defaults of config.get: enabled, and the interval in seconds
Configs == [ enabled : BOOLEAN, interval : {5, 300} ]

Init ==
    /\ nodes = <<>>
    /\ relationships = <<>>
    /\ now = 0
    /\ conn = [c \in Conns |-> IdleConn]
    /\ ret = NoRet
    /\ stored = <<>>
    /\ gets = <<>>
    /\ seen = <<>>
    /\ dreamer = [l \in Loops |-> NoDreamer]
    /\ manager = [l \in Loops |-> NoManager]
    /\ discovery = [l \in Loops |-> NoDiscovery]

(***************************************************************************)
(* The clock.                                                              *)
(***************************************************************************)
Tick ==
    /\ now < MaxTime
    /\ now' = now + 1
    /\ ret' = NoRet
    /\ UNCHANGED <<nodes, conn, stored, gets, seen>>
    /\ UNCHANGED <<svars, relationships>>

(***************************************************************************)
(* store_memory.                                                           *)
(***************************************************************************)
\* MemoryCore.store_memory(content, context): builds the MemoryNode, which
\* reads the clock twice, and inserts its row
\* the call by the caller by, its MemoryNode reading the clock at t1 and t2
StoreAt(by, content, context, t1, t2) ==
    /\ LET memory == NewMemoryNode(NewId, content, context, t1, t2)
       IN  /\ nodes' = Append(nodes, RowOf(memory))
           /\ ret' = [NoRet EXCEPT !.op = "store", !.via = by,
                                   !.id = memory.id, !.found = TRUE]
           /\ stored' = Append(stored, [ id |-> memory.id,
                                         content |-> content,
                                         context |-> context,
                                         by |-> by ])
    /\ now' = t2
    /\ gets' = Append(gets, 0)
    /\ seen' = Append(seen, {})
    /\ UNCHANGED conn

\* the call at the current reading of the clock; the second reading is the
\* same or a tick later
StoreEffect(by, content, context) ==
    \E t2 \in now..MaxTime :
        /\ t2 <= now + 1
        /\ StoreAt(by, content, context, now, t2)

\* the call a tick after the last reading of the clock, both its readings
\* in that tick: the clock is finer than the time between two calls
StoreLater(by, content, context) ==
    StoreAt(by, content, context, now + 1, now + 1)

\* a store_memory call of a foreground caller
StoreMemory(content, context) ==
    /\ Len(nodes) < MaxNodes
    /\ StoreEffect("core", content, context)
    /\ UNCHANGED <<svars, relationships>>

(***************************************************************************)
(* get_memory: SELECT the row; on a hit read the clock, UPDATE the access  *)
(* statistics and commit, and return the MemoryNode built from the row     *)
(* that was read.  Each call runs on a connection of its own; the          *)
(* statements of calls on different connections interleave.                *)
(***************************************************************************)
\* a statement whose WHERE clause was left out
IdMatchesAnyRow(row, id) == TRUE

\* WHERE id = ?
IdMatches(row, id) == row.id = id

\* the positions of the rows a statement's WHERE id = ? selects
Selected(id) == { i \in DOMAIN nodes : IdMatches(nodes[i], id) }

\* row = cursor.fetchone(): the first selected row (callers check Selected)
SelectRow(id) == nodes[CHOOSE i \in Selected(id) : \A j \in Selected(id) : i <= j]

\* a read-modify-write in the caller: the count that was read, plus one
IncrementedCountOfSnapshot(row, snapshot) == snapshot.access_count + 1

\* access_count = access_count + 1, computed by the UPDATE on the stored row
\* (row), not on the row the caller read (snapshot)
IncrementedCount(row, snapshot) == row.access_count + 1

\* an UPDATE that also raises the priority of the row
UpdateAccessAndPriority(row, snapshot, t) ==
    [row EXCEPT !.last_accessed_at = IsoFormat(t),
                !.access_count = IncrementedCount(row, snapshot),
                !.priority_score = @ + 1]

\* an UPDATE that counts down
UpdateAccessCountsDown(row, snapshot, t) ==
    [row EXCEPT !.last_accessed_at = IsoFormat(t),
                !.access_count = @ - 1]

\* UPDATE memory_nodes SET last_accessed_at = ?, access_count =
\* access_count + 1, on one row
UpdateAccess(row, snapshot, t) ==
    [row EXCEPT !.last_accessed_at = IsoFormat(t),
                !.access_count = IncrementedCount(row, snapshot)]

\* the MemoryNode get_memory returns: the row it read, with
\* last_accessed_at = now and access_count = row[5] + 1
ReturnedNode(snapshot, t) ==
    [NodeOfRow(snapshot) EXCEPT !.last_accessed_at = t,
                                !.access_count = snapshot.access_count + 1]

\* the get_memory calls in flight on the row id
InFlight(id) == Cardinality({c \in Conns : conn[c].pc # "idle" /\ conn[c].id = id})

\* the ids callers look up: those a store may return, and 0, which none does
ProbeIds == 0..MaxNodes

\* a lookup whose SELECT fetched no row: it returns None
MissEffect(id) ==
    /\ ret' = [NoRet EXCEPT !.op = "get", !.via = "core", !.id = id]
    /\ UNCHANGED <<nodes, now, stored, gets, seen>>

\* the UPDATE and the return of a lookup that read snapshot and then the
\* clock at t
HitEffect(id, snapshot, t) ==
    LET i      == RowIndex(snapshot.id)
        memory == ReturnedNode(snapshot, t)
    IN  /\ nodes' = [j \in DOMAIN nodes |->
                       IF IdMatches(nodes[j], id)
                       THEN UpdateAccess(nodes[j], snapshot, t) ELSE nodes[j]]
        /\ ret' = [NoRet EXCEPT !.op = "get", !.via = "core", !.id = id,
                                !.found = TRUE, !.out = <<memory>>,
                                !.after = nodes'[i].access_count]
        /\ gets' = [gets EXCEPT ![i] = @ + 1]
        /\ seen' = [seen EXCEPT ![i] = @ \cup {memory.access_count}]
        /\ UNCHANGED <<now, stored>>

\* cursor.execute("SELECT ...") and fetchone(); if no row, return None
GetSelect(c, id) ==
    /\ conn[c].pc = "idle"
    /\ IF Selected(id) = {}
       THEN MissEffect(id) /\ UNCHANGED conn
       ELSE /\ SelectRow(id).access_count + InFlight(SelectRow(id).id) < MaxAccess
            /\ conn' = [conn EXCEPT ![c] = [ pc |-> "selected", id |-> id,
                                             row |-> SelectRow(id), now |-> 0 ]]
            /\ ret' = NoRet
            /\ UNCHANGED <<nodes, now, stored, gets, seen>>
    /\ UNCHANGED <<svars, relationships>>

\* now = datetime.now(timezone.utc)
GetNow(c) ==
    /\ conn[c].pc = "selected"
    /\ conn' = [conn EXCEPT ![c].pc = "stamped", ![c].now = now]
    /\ ret' = NoRet
    /\ UNCHANGED <<nodes, now, stored, gets, seen>>
    /\ UNCHANGED <<svars, relationships>>

\* the UPDATE, the commit and the return
GetUpdate(c) ==
    /\ conn[c].pc = "stamped"
    /\ HitEffect(conn[c].id, conn[c].row, conn[c].now)
    /\ conn' = [conn EXCEPT ![c] = IdleConn]
    /\ UNCHANGED <<svars, relationships>>

\* recall_memory(id) run with no other call on the database in between
RecallMemory(id) ==
    /\ \A c \in Conns : conn[c].pc = "idle"
    /\ IF Selected(id) = {}
       THEN MissEffect(id)
       ELSE /\ SelectRow(id).access_count < MaxAccess
            /\ HitEffect(id, SelectRow(id), now)
    /\ UNCHANGED conn
    /\ UNCHANGED <<svars, relationships>>

\* the dict recall_memory returns for the MemoryNode of get_memory
RecallResult(memory) ==
    [ id               |-> memory.id,
      content          |-> memory.content,
      context          |-> memory.context,
      created_at       |-> IsoFormat(memory.created_at),
      last_accessed_at |-> IsoFormat(memory.last_accessed_at),
      access_count     |-> memory.access_count,
      priority_score   |-> memory.priority_score,
      node_type        |-> memory.node_type ]

(***************************************************************************)
(* search_memories: SELECT ... WHERE content LIKE ? OR context LIKE ?      *)
(* ORDER BY priority_score DESC, last_accessed_at DESC LIMIT ?             *)
(***************************************************************************)
\* the WHERE clause on one row
RowMatches(row, query) ==
    \/ Like(LikePattern(query), row.content)
    \/ Like(LikePattern(query), row.context)

\* the positions of the rows the WHERE clause keeps
Matching(query) == { i \in DOMAIN nodes : RowMatches(nodes[i], query) }

\* ORDER BY priority_score DESC, last_accessed_at with DESC left out
MayPrecedeAscending(r1, r2) ==
    \/ r1.priority_score > r2.priority_score
    \/ /\ r1.priority_score = r2.priority_score
       /\ ~TextLess(r2.last_accessed_at, r1.last_accessed_at)

\* ORDER BY priority_score DESC, last_accessed_at DESC lets r1 come before
\* r2; last_accessed_at is a TEXT column and is compared as text
MayPrecede(r1, r2) ==
    \/ r1.priority_score > r2.priority_score
    \/ /\ r1.priority_score = r2.priority_score
       /\ ~TextLess(r1.last_accessed_at, r2.last_accessed_at)

RECURSIVE Orderings(_)
\* the orders the ORDER BY allows for a set of rows (rows with equal keys
\* come in an order the statement leaves open): a row that may precede
\* every other row, then an order of the others
Orderings(S) ==
    IF S = {} THEN { <<>> }
    ELSE UNION { { <<i>> \o s : s \in Orderings(S \ {i}) } :
                 i \in { j \in S : \A k \in S : MayPrecede(nodes[j], nodes[k]) } }

\* LIMIT n: the first n rows; SQLite reads a negative LIMIT as no limit
Limited(s, limit) ==
    IF limit < 0 \/ limit >= Len(s) THEN s ELSE SubSeq(s, 1, limit)

\* the lists of MemoryNode search_memories may return
SearchMemories(query, limit) ==
    { [k \in DOMAIN Limited(s, limit) |-> NodeOfRow(nodes[Limited(s, limit)[k]])] :
        s \in Orderings(Matching(query)) }

\* one entry of the list query_memories returns
QueryResult(memory) ==
    [ id             |-> memory.id,
      content        |-> memory.content,
      context        |-> memory.context,
      created_at     |-> IsoFormat(memory.created_at),
      priority_score |-> memory.priority_score,
      node_type      |-> memory.node_type ]

\* a query_memories that counts an access of every row it returns
CoreQueryCountsAccess(via, query, asked, limit) ==
    /\ \E result \in SearchMemories(query, limit) :
         /\ ret' = [NoRet EXCEPT !.op = "query", !.via = via, !.query = query,
                                 !.asked = asked, !.limit = limit,
                                 !.found = TRUE, !.out = result]
         /\ nodes' = [i \in DOMAIN nodes |->
                        IF \E k \in DOMAIN result : result[k].id = nodes[i].id
                        THEN [nodes[i] EXCEPT !.access_count = @ + 1]
                        ELSE nodes[i]]
    /\ UNCHANGED <<now, conn, stored, gets, seen>>
    /\ UNCHANGED <<svars, relationships>>

\* MemoryCore.query_memories(query, limit), entered from via with the limit
\* the caller asked for
CoreQuery(via, query, asked, limit) ==
    /\ \E result \in SearchMemories(query, limit) :
         ret' = [NoRet EXCEPT !.op = "query", !.via = via, !.query = query,
                              !.asked = asked, !.limit = limit, !.found = TRUE,
                              !.out = result]
    /\ UNCHANGED <<nodes, now, conn, stored, gets, seen>>
    /\ UNCHANGED <<svars, relationships>>

\* a direct call of the core (the tests, the examples, the dreamer)
QueryMemories(query, limit) == CoreQuery("core", query, limit, limit)

(***************************************************************************)
(* The adapters' query_memories entry points.                              *)
(***************************************************************************)
MinLimit == 1
MaxLimit == 100

\* rest_api.py: if limit < 1 or limit > 100: limit = min(max(limit, 1), 100)
RestLimit(limit) ==
    IF limit < MinLimit \/ limit > MaxLimit
    THEN (IF limit < MinLimit THEN MinLimit
          ELSE IF limit > MaxLimit THEN MaxLimit ELSE limit)
    ELSE limit

\* mcp_server.py: limit = arguments.get("limit", 10), passed on as it is
McpLimit(limit) == limit

RestQueryMemories(query, limit) == CoreQuery("rest", query, limit, RestLimit(limit))

McpQueryMemories(query, limit) == CoreQuery("mcp", query, limit, McpLimit(limit))

(***************************************************************************)
(* The background worker of dreamer_ai.py: the texts it builds.            *)
(***************************************************************************)
\* the keys of the contexts the worker reads and writes
ProjectKey == <<"p", "r", "o", "j", "e", "c", "t">>
TypeKey == <<"t", "y", "p", "e">>
SourceKey == <<"s", "o", "u", "r", "c", "e">>
CountKey ==
    <<"s", "u", "m", "m", "a", "r", "i", "z", "e", "d", "_", "c", "o",
      "u", "n", "t">>

\* the fixed runs of the summary text
SummaryOf == <<"S", "u", "m", "m", "a", "r", "y", " ", "o", "f", " ">>
TotalMemories ==
    <<"T", "o", "t", "a", "l", " ", "m", "e", "m", "o", "r", "i", "e",
      "s", ":", " ">>
RecentActivities ==
    <<"R", "e", "c", "e", "n", "t", " ", "a", "c", "t", "i", "v", "i",
      "t", "i", "e", "s", ":">>
GeneratedBy ==
    <<"T", "h", "i", "s", " ", "i", "s", " ", "a", "n", " ", "a", "u",
      "t", "o", "m", "a", "t", "i", "c", "a", "l", "l", "y", " ",
      "g", "e", "n", "e", "r", "a", "t", "e", "d", " ", "s", "u",
      "m", "m", "a", "r", "y", " ", "c", "r", "e", "a", "t", "e",
      "d", " ", "b", "y", " ", "t", "h", "e", " ", "D", "r", "e",
      "a", "m", "e", "r", " ", "A", "I", ".">>
LastUpdated ==
    <<"L", "a", "s", "t", " ", "u", "p", "d", "a", "t", "e", "d", ":", " ">>

\* the thresholds and limits of the worker
MinMemories == 2
MinGroup == 3
SampleLimit == 50
SummaryLimit == 100
DefaultLimit == 10
PreviewCount == 5
PreviewLen == 50
DefaultInterval == 300
Backoff == 60

RECURSIVE Decimal(_)
\* str(n) of a non-negative integer
Decimal(n) ==
    IF n < 10 THEN <<Digits[n + 1]>>
    ELSE Decimal(n \div 10) \o <<Digits[(n % 10) + 1]>>

\* str(v), as an f-string formats a context value
PyStr(v) ==
    IF v[1] = "bool"
    THEN (IF v[2] = <<"t", "r", "u", "e">> THEN <<"T", "r", "u", "e">>
          ELSE <<"F", "a", "l", "s", "e">>)
    ELSE v[2]

\* the truth value of a context value, as in "if project:"
Truthy(v) ==
    CASE v[1] = "none" -> FALSE
      [] v[1] = "str"  -> v[2] # <<>>
      [] v[1] = "int"  -> \E i \in DOMAIN v[2] : v[2][i] \notin {"0", "-"}
      [] v[1] = "bool" -> v[2] = <<"t", "r", "u", "e">>

\* strftime("%H:%M:%S UTC") of a clock reading, the seconds alone
Strftime(t) ==
    LET sec == t \div TicksPerSecond
    IN  <<Digits[(sec \div 10) + 1], Digits[(sec % 10) + 1], " ", "U", "T", "C">>

\* the query of the existence check: f"Summary of {project}"
SummaryQuery(project) == SummaryOf \o PyStr(project)

\* content[:50] + "..." if len(content) > 50 else content
Preview(content) ==
    IF Len(content) > PreviewLen
    THEN SubSeq(content, 1, PreviewLen) \o <<".", ".", ".">>
    ELSE content

\* memories[-5:]
LastMemories(memories) ==
    IF Len(memories) > PreviewCount
    THEN SubSeq(memories, Len(memories) - PreviewCount + 1, Len(memories))
    ELSE memories

RECURSIVE JoinActivities(_)
\* chr(10).join(f"- {content_preview}" for the memories)
JoinActivities(memories) ==
    IF memories = <<>> THEN <<>>
    ELSE <<"-", " ">> \o Preview(memories[1].content)
         \o (IF Len(memories) > 1 THEN <<"\n">> ELSE <<>>)
         \o JoinActivities(Tail(memories))

\* summary_content of _create_project_summary at clock reading t
SummaryContent(project, memories, t) ==
    SummaryOf \o PyStr(project) \o <<":", "\n", "\n">>
    \o TotalMemories \o Decimal(Len(memories)) \o <<"\n">>
    \o RecentActivities \o <<"\n">>
    \o JoinActivities(LastMemories(memories)) \o <<"\n", "\n">>
    \o GeneratedBy \o <<"\n">>
    \o LastUpdated \o Strftime(t)

\* summary_context of _create_project_summary
SummaryContext(project, memories) ==
    << <<TypeKey, <<"str", <<"s", "u", "m", "m", "a", "r", "y">>>>>>,
       <<ProjectKey, project>>,
       <<SourceKey, <<"str", <<"d", "r", "e", "a", "m", "e", "r", "_", "a", "i">>>>>>,
       <<CountKey, <<"int", Decimal(Len(memories))>>>> >>

\* a memory as a project group holds it: of the dict query_memories
\* returned, the one key _create_project_summary reads
Grouped(memory) == [ content |-> memory.content ]

RECURSIVE GroupByProject(_, _)
\* project_groups of _create_summaries: the memories that have a truthy
\* context.project, grouped by it, the groups in the order their first
\* memory comes in all_memories
GroupByProject(memories, groups) ==
    IF memories = <<>> THEN groups
    ELSE LET memory  == Head(memories)
             project == DictGet(memory.context, ProjectKey)
         IN  IF ~Truthy(project) THEN GroupByProject(Tail(memories), groups)
             ELSE IF \E g \in DOMAIN groups : groups[g].project = project
             THEN GroupByProject(Tail(memories),
                    [g \in DOMAIN groups |->
                       IF groups[g].project = project
                       THEN [groups[g] EXCEPT !.memories = Append(@, Grouped(memory))]
                       ELSE groups[g]])
             ELSE GroupByProject(Tail(memories),
                    Append(groups, [project |-> project,
                                    memories |-> <<Grouped(memory)>>]))

\* a loop over the groups that summarizes every one of them
AllGroups(groups) == groups

\* the groups _create_summaries summarizes: those with len(memories) >= 3
EligibleGroups(groups) ==
    SelectSeq(groups, LAMBDA g : Len(g.memories) >= MinGroup)

(***************************************************************************)
(* The relationship scorer.  A score is a fraction [num, den]: the sum of  *)
(* the code's terms over the common denominator 10 * len(union), so that   *)
(* tenths and the Jaccard quotient add up exactly.                         *)
(***************************************************************************)
\* the terms of the score, in tenths: 0.2 per equal context value, 0.5 times
\* the Jaccard similarity, 0.1 for creation within a day; a relationship is
\* classified when the score is above 0.3
Tenths == 10
ContextTenths == 2
WordTenths == 5
TimeTenths == 1
ThresholdTenths == 3

\* 24 hours, in seconds
DaySeconds == 86400

\* the most pairs one discovery draws
MaxPairs == 10

\* str.lower() of ASCII text
Lower(s) == [i \in DOMAIN s |-> LikeFold(s[i])]

\* set(str.split()): the maximal runs of characters between spaces
Split(s) ==
    { SubSeq(s, a, b) : <<a, b>> \in
        { p \in (DOMAIN s) \X (DOMAIN s) :
            /\ p[1] <= p[2]
            /\ \A i \in p[1]..p[2] : s[i] # " "
            /\ p[1] = 1 \/ s[p[1] - 1] = " "
            /\ p[2] = Len(s) \/ s[p[2] + 1] = " " } }

\* set(memory["content"].lower().split())
Words(memory) == Split(Lower(memory.content))

\* the number a bool or an int compares as
PyNumber(v) ==
    IF v[1] = "bool" THEN (IF Truthy(v) THEN <<"1">> ELSE <<"0">>) ELSE v[2]

\* == on two context values: True == 1 and False == 0, None == None
PyEq(v, w) ==
    IF v[1] \in {"int", "bool"} /\ w[1] \in {"int", "bool"}
    THEN PyNumber(v) = PyNumber(w)
    ELSE v = w

\* set(context.keys())
Keys(context) == { context[i][1] : i \in DOMAIN context }

\* the common keys of two contexts whose values are equal
EqualKeys(context1, context2) ==
    { key \in Keys(context1) \cap Keys(context2) :
        PyEq(DictGet(context1, key), DictGet(context2, key)) }

\* abs((time1 - time2).total_seconds()) < 86400, the times parsed from the
\* created_at text of the two dicts
WithinDay(memory1, memory2) ==
    LET time1 == FromIsoFormat(memory1.created_at)
        time2 == FromIsoFormat(memory2.created_at)
        diff  == IF time1 >= time2 THEN time1 - time2 ELSE time2 - time1
    IN  diff < DaySeconds * TicksPerSecond

\* a scorer that returns the sum as it is
Unclamped(sum, den) == sum

\* min(score, 1.0)
Clamp(sum, den) == IF sum < den THEN sum ELSE den

\* the sum of the terms, before min(score, 1.0), over den
ScoreSum(memory1, memory2, den) ==
    LET words1 == Words(memory1)
        words2 == Words(memory2)
        union  == den \div Tenths
    IN  ContextTenths * Cardinality(EqualKeys(memory1.context, memory2.context))
                      * union
        + (IF words1 # {} /\ words2 # {}
           THEN WordTenths * Cardinality(words1 \cap words2) ELSE 0)
        + (IF WithinDay(memory1, memory2) THEN TimeTenths * union ELSE 0)

\* the denominator of the score of a pair: tenths of len(union), or tenths
\* alone when a content has no word and the Jaccard term is skipped
ScoreDen(memory1, memory2) ==
    IF Words(memory1) # {} /\ Words(memory2) # {}
    THEN Tenths * Cardinality(Words(memory1) \cup Words(memory2))
    ELSE Tenths

\* _analyze_relationship(memory1, memory2)
AnalyzeRelationship(memory1, memory2) ==
    LET den == ScoreDen(memory1, memory2)
    IN  [ num |-> Clamp(ScoreSum(memory1, memory2, den), den), den |-> den ]

\* relationship_score > 0.3, as the floats compare: a sum that is three
\* tenths is 0.2 + 0.1 = 0.30000000000000004, above the literal 0.3
AboveThreshold(score) == Tenths * score.num >= ThresholdTenths * score.den

\* a classifier that looks at the type first
ClassifyTypeFirst(memory1, memory2) ==
    IF PyEq(DictGet(memory1.context, TypeKey), DictGet(memory2.context, TypeKey))
    THEN "type_similar"
    ELSE IF PyEq(DictGet(memory1.context, ProjectKey),
                 DictGet(memory2.context, ProjectKey))
    THEN "project_related"
    ELSE "semantic"

\* _classify_relationship(memory1, memory2): context.get(key) is None where
\* the key is missing
ClassifyRelationship(memory1, memory2) ==
    IF PyEq(DictGet(memory1.context, ProjectKey),
            DictGet(memory2.context, ProjectKey))
    THEN "project_related"
    ELSE IF PyEq(DictGet(memory1.context, TypeKey), DictGet(memory2.context, TypeKey))
    THEN "type_similar"
    ELSE "semantic"

\* num_pairs = min(10, n * (n - 1) // 2)
NumPairs(n) ==
    IF (n * (n - 1)) \div 2 < MaxPairs THEN (n * (n - 1)) \div 2 ELSE MaxPairs

\* random.sample(sample_memories, 2): two different positions, in an order
SamplePairs(n) == { p \in (1..n) \X (1..n) : p[1] # p[2] }

\* what one pass of the loop over the pairs leaves in the log
Scored(sample, i, j) ==
    LET score == AnalyzeRelationship(sample[i], sample[j])
    IN  [ memory1 |-> i, memory2 |-> j, score |-> score,
          type |-> IF AboveThreshold(score)
                   THEN ClassifyRelationship(sample[i], sample[j])
                   ELSE "none" ]

(***************************************************************************)
(* The background worker: DreamerAI.start() and the cycle it runs.  The    *)
(* coroutine gives up the event loop only in its two sleeps; the calls of  *)
(* a cycle are on coroutines that run sqlite3 statements synchronously.    *)
(* A step of the model runs up to the next statement on the database, so   *)
(* that the statements of other processes on the same file come between.   *)
(* A statement may raise (ok = FALSE): the database methods log and        *)
(* re-raise.  The calls that store, of the worker and of the foreground    *)
(* callers beside it, each read a later tick of the clock.                 *)
(***************************************************************************)
\* statistics that count the rows foreground callers stored
MemoryStatsOfCallers ==
    [ memory_count |-> Cardinality({i \in DOMAIN stored : stored[i].by = "core"}),
      relationship_count |-> 0,
      graph_size |-> Len(nodes) + 0 ]

\* get_memory_stats: SELECT COUNT(*) of both tables; no statement of the
\* program inserts into memory_relationships
MemoryStats ==
    [ memory_count |-> Len(nodes), relationship_count |-> Len(relationships),
      graph_size |-> Len(nodes) + Len(relationships) ]

\* get_health_status
HealthStatus ==
    [ status |-> "healthy", memory_count |-> MemoryStats.memory_count,
      graph_size |-> MemoryStats.graph_size ]

\* a get_health_status call of a foreground caller
GetHealthStatus ==
    /\ ret' = [NoRet EXCEPT !.op = "health", !.via = "core", !.found = TRUE,
                            !.out = <<HealthStatus>>]
    /\ UNCHANGED <<nodes, now, conn, stored, gets, seen>>
    /\ UNCHANGED <<svars, relationships>>

\* a cycle that returns without last_run being set
CompletedKeepsLastRun(d, t) ==
    [d EXCEPT !.pc = "sleep", !.sleep = d.interval, !.groups = <<>>]

\* a loop that runs one cycle and returns
CompletedReturns(d, t) ==
    [d EXCEPT !.last_run = t, !.pc = "returned", !.groups = <<>>]

\* the cycle returned: last_run = datetime.now(), then asyncio.sleep(interval)
Completed(d, t) ==
    [d EXCEPT !.last_run = t, !.pc = "sleep", !.sleep = d.interval,
              !.groups = <<>>]

\* a handler that sleeps the configured interval after a cycle raised
FailedSleepsInterval(d) ==
    [d EXCEPT !.pc = "backoff", !.sleep = d.interval, !.groups = <<>>,
              !.failed = TRUE]

\* the cycle raised: except Exception, then asyncio.sleep(60)
Failed(d) ==
    [d EXCEPT !.pc = "backoff", !.sleep = Backoff, !.groups = <<>>,
              !.failed = TRUE]

\* the for loop of _create_summaries moves on to the next group; after the
\* last one _update_priorities only logs, and the cycle returns
NextGroup(d, t) ==
    IF Len(d.groups) > 1 THEN [d EXCEPT !.groups = Tail(@), !.pc = "check"]
    ELSE Completed(d, t)

\* a step of the worker whose reads count as accesses of every row
ReadStepCountsAccess ==
    /\ ret' = NoRet
    /\ nodes' = [i \in DOMAIN nodes |-> [nodes[i] EXCEPT !.access_count = @ + 1]]
    /\ UNCHANGED <<now, conn, stored, gets, seen, relationships, manager, discovery>>

\* a step of the worker that reads the database, or fails to
ReadOnlyStep ==
    /\ ret' = NoRet
    /\ UNCHANGED <<nodes, now, conn, stored, gets, seen, relationships, manager, discovery>>

\* DreamerAI(memory_core, enabled, interval), its start() scheduled
NewDreamer(enabled, interval) ==
    [NoDreamer EXCEPT !.exists = TRUE, !.enabled = enabled,
                      !.interval = interval, !.pc = "created"]

\* a DreamerAI constructed and started without a manager
RunDreamer(l, enabled, interval) ==
    /\ dreamer[l].pc = "none"
    /\ manager[l].pc = "idle"
    /\ dreamer' = [dreamer EXCEPT ![l] = NewDreamer(enabled, interval)]
    /\ ReadOnlyStep

\* a start() that does not look at enabled
DreamerStartAlways(l) ==
    /\ dreamer[l].pc = "created"
    /\ ~dreamer[l].must_cancel
    /\ dreamer' = [dreamer EXCEPT ![l] = [@ EXCEPT !.running = TRUE, !.pc = "stats"]]
    /\ ReadOnlyStep

\* start() up to the first statement of the first cycle: return if not
\* enabled, else running = True and into the loop
DreamerStart(l) ==
    /\ dreamer[l].pc = "created"
    /\ ~dreamer[l].must_cancel
    /\ dreamer' = [dreamer EXCEPT ![l] =
                     IF ~@.enabled THEN [@ EXCEPT !.pc = "returned"]
                     ELSE [@ EXCEPT !.running = TRUE, !.pc = "stats"]]
    /\ ReadOnlyStep

\* _process_cycle: get_health_status; return if memory_count < 2
CycleStats(l, ok) ==
    /\ dreamer[l].pc = "stats"
    /\ dreamer' = [dreamer EXCEPT ![l] =
                     IF ~ok THEN Failed(@)
                     ELSE IF HealthStatus.memory_count < MinMemories
                     THEN Completed(@, now)
                     ELSE [@ EXCEPT !.pc = "discover"]]
    /\ ReadOnlyStep

\* the dicts query_memories returns for a list of MemoryNode
QueryResults(memories) == [k \in DOMAIN memories |-> QueryResult(memories[k])]

\* _discover_relationships as one step, the pairs it draws left out: it
\* reads with query_memories("", limit=50) and scores and logs pairs,
\* nothing is stored
DiscoverRelationships(l, ok) ==
    /\ dreamer[l].pc = "discover"
    /\ dreamer' = [dreamer EXCEPT ![l] =
                     IF ~ok THEN Failed(@) ELSE [@ EXCEPT !.pc = "summaries"]]
    /\ ReadOnlyStep

\* _discover_relationships up to its loop: query_memories("", limit=50),
\* and return if it found fewer than 2 memories
DiscoverSample(l, ok) ==
    /\ dreamer[l].pc = "discover"
    /\ IF ~ok
       THEN /\ dreamer' = [dreamer EXCEPT ![l] = Failed(@)]
            /\ UNCHANGED discovery
       ELSE \E sample_memories \in SearchMemories(EmptyText, SampleLimit) :
              /\ discovery' = [discovery EXCEPT ![l] =
                                 [ sample |-> QueryResults(sample_memories),
                                   log    |-> <<>> ]]
              /\ dreamer' = [dreamer EXCEPT ![l].pc =
                               IF Len(sample_memories) < MinMemories
                               THEN "summaries" ELSE "pairs"]
    /\ ret' = NoRet
    /\ UNCHANGED <<nodes, now, conn, stored, gets, seen, relationships, manager>>

\* a pass that stores the relationship it logs
ScorePairPersists(l) ==
    /\ dreamer[l].pc = "pairs"
    /\ \E p \in SamplePairs(Len(discovery[l].sample)) :
         LET e == Scored(discovery[l].sample, p[1], p[2])
         IN  /\ discovery' = [discovery EXCEPT ![l].log = Append(@, e)]
             /\ relationships' = IF e.type = "none" THEN relationships
                                 ELSE Append(relationships, e)
    /\ dreamer' = [dreamer EXCEPT ![l].pc =
                     IF Len(discovery'[l].log) < NumPairs(Len(discovery[l].sample))
                     THEN "pairs" ELSE "summaries"]
    /\ ret' = NoRet
    /\ UNCHANGED <<nodes, now, conn, stored, gets, seen, manager>>

\* one pass of the loop of _discover_relationships: a pair drawn, scored
\* and, above the threshold, classified and logged; after the last pass
\* the cycle goes on to the summaries
ScorePair(l) ==
    /\ dreamer[l].pc = "pairs"
    /\ \E p \in SamplePairs(Len(discovery[l].sample)) :
         discovery' = [discovery EXCEPT ![l].log =
                         Append(@, Scored(discovery[l].sample, p[1], p[2]))]
    /\ dreamer' = [dreamer EXCEPT ![l].pc =
                     IF Len(discovery'[l].log) < NumPairs(Len(discovery[l].sample))
                     THEN "pairs" ELSE "summaries"]
    /\ ret' = NoRet
    /\ UNCHANGED <<nodes, now, conn, stored, gets, seen, relationships, manager>>

\* the rows a worker stored as the summary of project
SummariesOf(project) ==
    { i \in DOMAIN stored :
        /\ stored[i].by = "dreamer"
        /\ DictGet(stored[i].context, ProjectKey) = project }

\* history: of the groups of a run, those whose project has no summary yet,
\* each with its project and the number of its memories
DueGroups(groups) ==
    { [ project |-> groups[g].project, count |-> Len(groups[g].memories) ] :
        g \in { h \in DOMAIN groups : SummariesOf(groups[h].project) = {} } }

\* history: the run stored n summaries more, and is complete when the
\* cycle has returned
RunGoesOn(d, n) ==
    [d EXCEPT !.run = [@ EXCEPT !.swept = @ + n, !.complete = d.pc = "sleep"]]

\* _create_summaries: query_memories("", limit=100), the project groups,
\* and into the loop over those with 3 memories or more
CreateSummaries(l, ok) ==
    /\ dreamer[l].pc = "summaries"
    /\ IF ~ok THEN dreamer' = [dreamer EXCEPT ![l] = Failed(@)]
       ELSE \E all_memories \in SearchMemories(EmptyText, SummaryLimit) :
              LET groups == EligibleGroups(
                              GroupByProject(QueryResults(all_memories), <<>>))
                  run    == [ from     |-> Len(nodes),
                              due      |-> DueGroups(groups),
                              swept    |-> Len(nodes),
                              complete |-> groups = <<>> ]
              IN  dreamer' = [dreamer EXCEPT ![l] =
                                IF groups = <<>>
                                THEN [Completed(@, now) EXCEPT !.run = run]
                                ELSE [@ EXCEPT !.groups = groups, !.pc = "check",
                                               !.run = run]]
    /\ ReadOnlyStep

\* _create_project_summary, the existence check:
\* query_memories(f"Summary of {project}"); return if it found anything
CheckSummary(l, ok) ==
    /\ dreamer[l].pc = "check"
    /\ IF ~ok THEN dreamer' = [dreamer EXCEPT ![l] = Failed(@)]
       ELSE \E existing_summaries \in
                SearchMemories(SummaryQuery(dreamer[l].groups[1].project),
                               DefaultLimit) :
              dreamer' = [dreamer EXCEPT ![l] =
                            IF existing_summaries # <<>>
                            THEN RunGoesOn(NextGroup(@, now), 0)
                            ELSE [@ EXCEPT !.pc = "store"]]
    /\ ReadOnlyStep

\* _create_project_summary, the store of the summary
StoreSummary(l, ok) ==
    /\ dreamer[l].pc = "store"
    /\ IF ~ok
       THEN /\ dreamer' = [dreamer EXCEPT ![l] = Failed(@)]
            /\ ReadOnlyStep
       ELSE LET group == dreamer[l].groups[1]
            IN  /\ StoreLater("dreamer",
                              SummaryContent(group.project, group.memories,
                                             now + 1),
                              SummaryContext(group.project, group.memories))
                /\ dreamer' = [dreamer EXCEPT ![l] =
                                 RunGoesOn(NextGroup(@, now'), 1)]
                /\ UNCHANGED <<manager, discovery, relationships>>

\* a sleep expires with no cancellation pending: while self.running
Wake(l) ==
    /\ dreamer[l].pc \in {"sleep", "backoff"}
    /\ ~dreamer[l].must_cancel
    /\ dreamer' = [dreamer EXCEPT ![l] =
                     IF @.running THEN [@ EXCEPT !.pc = "stats", !.sleep = 0]
                     ELSE [@ EXCEPT !.pc = "returned", !.sleep = 0]]
    /\ ReadOnlyStep

\* the event loop throws CancelledError into the task where it is
\* suspended: the interval sleep is inside the try, whose handler breaks
\* out of the loop; the backoff sleep is inside the except Exception
\* handler and a task that has not run yet has entered nothing, so the
\* error ends the task
DeliverCancel(l) ==
    /\ dreamer[l].must_cancel
    /\ dreamer[l].pc \in {"created", "sleep", "backoff"}
    /\ dreamer' = [dreamer EXCEPT ![l] =
                     [@ EXCEPT !.pc = IF dreamer[l].pc = "sleep" THEN "returned"
                                      ELSE "cancelled",
                               !.sleep = 0, !.must_cancel = FALSE]]
    /\ ReadOnlyStep

\* DreamerAI.stop(), wherever start() is: running = False
DreamerStop(l) ==
    /\ dreamer[l].exists
    /\ dreamer' = [dreamer EXCEPT ![l] =
                     [@ EXCEPT !.running = FALSE, !.stopped = TRUE]]
    /\ ReadOnlyStep

\* whoever holds the task of start() cancels it while it is suspended, as
\* asyncio.run does with its main task on an interrupt: the request is
\* delivered when the task is resumed
CancelTask(l) ==
    /\ dreamer[l].pc \in {"created", "sleep", "backoff"}
    /\ ~dreamer[l].must_cancel
    /\ dreamer' = [dreamer EXCEPT ![l] = [@ EXCEPT !.must_cancel = TRUE]]
    /\ ReadOnlyStep

(***************************************************************************)
(* DreamerManager.  Its start() and stop() run on the event loop of its    *)
(* task, so they run while the task is suspended or has ended.             *)
(***************************************************************************)
\* an event loop that runs stop() wherever the task is
YieldedAnywhere(pc) == TRUE

\* the task is not running: not started yet, in a sleep, or ended
Yielded(pc) == pc \in {"none", "created", "sleep", "backoff", "returned", "cancelled"}

\* the task has ended
Ended(pc) == pc \in {"returned", "cancelled"}

\* DreamerManager(memory_core, config).start()
ManagerStart(l, config) ==
    /\ manager[l].pc = "idle"
    /\ dreamer[l].pc = "none"
    /\ IF ~config.enabled
       THEN /\ manager' = [manager EXCEPT ![l].enabled = FALSE,
                                          ![l].pc = "started"]
            /\ UNCHANGED dreamer
       ELSE /\ manager' = [manager EXCEPT ![l].enabled = TRUE,
                                          ![l].dreamer = TRUE,
                                          ![l].task = TRUE,
                                          ![l].pc = "started"]
            /\ dreamer' = [dreamer EXCEPT ![l] =
                             NewDreamer(config.enabled, config.interval)]
    /\ ret' = NoRet
    /\ UNCHANGED <<nodes, now, conn, stored, gets, seen, relationships, discovery>>

\* start() of the DreamerManager of loop l, which was started before: its
\* config is the same; the DreamerAI and the task it creates, those of
\* loop k, replace self.dreamer and self.task, which were the references
\* the manager had to those of loop l.  The manager is from now on the
\* manager of loop k, and loop l is left with none
ManagerStartAgain(l, k) ==
    /\ l # k
    /\ manager[l].pc = "started"
    /\ manager[k].pc = "idle"
    /\ dreamer[k].pc = "none"
    /\ IF ~manager[l].enabled
       THEN UNCHANGED <<manager, dreamer>>
       ELSE /\ manager' = [manager EXCEPT
                             ![k] = manager[l],
                             ![l] = [NoManager EXCEPT !.pc = "left"]]
            /\ dreamer' = [dreamer EXCEPT ![k] =
                             NewDreamer(manager[l].enabled, dreamer[l].interval)]
    /\ ret' = NoRet
    /\ UNCHANGED <<nodes, now, conn, stored, gets, seen, relationships, discovery>>

\* a stop() that clears the running flag and awaits the task without
\* cancelling it
ManagerStopNoCancel(l) ==
    /\ manager[l].pc = "started"
    /\ Yielded(dreamer[l].pc)
    /\ dreamer' = [dreamer EXCEPT ![l] =
                     [@ EXCEPT !.running = IF manager[l].dreamer THEN FALSE
                                            ELSE dreamer[l].running,
                               !.stopped = @ \/ manager[l].dreamer]]
    /\ manager' = [manager EXCEPT ![l].pc =
                                      IF manager[l].task THEN "awaiting"
                                      ELSE "stopped",
                                  ![l].at = dreamer[l].pc]
    /\ ret' = NoRet
    /\ UNCHANGED <<nodes, now, conn, stored, gets, seen, relationships, discovery>>

\* stop() up to its await: self.dreamer.stop() and self.task.cancel()
ManagerStop(l) ==
    /\ manager[l].pc = "started"
    /\ Yielded(dreamer[l].pc)
    /\ dreamer' = [dreamer EXCEPT ![l] =
                     [@ EXCEPT !.running = IF manager[l].dreamer THEN FALSE
                                            ELSE dreamer[l].running,
                               !.stopped = @ \/ manager[l].dreamer,
                               !.must_cancel =
                                   manager[l].task /\ ~Ended(dreamer[l].pc)]]
    /\ manager' = [manager EXCEPT ![l].pc =
                                      IF manager[l].task THEN "awaiting"
                                      ELSE "stopped",
                                  ![l].at = dreamer[l].pc]
    /\ ret' = NoRet
    /\ UNCHANGED <<nodes, now, conn, stored, gets, seen, relationships, discovery>>

\* an except clause that catches nothing
CatchesNothing(exc) == FALSE

\* except asyncio.CancelledError: pass
CatchesCancelled(exc) == exc = "CancelledError"

\* what await self.task raises in stop()
AwaitRaises(pc) == IF pc = "cancelled" THEN "CancelledError" ELSE "none"

\* stop() from its await on: the task has ended
ManagerStopReturn(l) ==
    /\ manager[l].pc = "awaiting"
    /\ Ended(dreamer[l].pc)
    /\ manager' = [manager EXCEPT ![l].pc =
                     IF AwaitRaises(dreamer[l].pc) = "none"
                        \/ CatchesCancelled(AwaitRaises(dreamer[l].pc))
                     THEN "stopped" ELSE "raised"]
    /\ ret' = NoRet
    /\ UNCHANGED <<nodes, now, conn, stored, gets, seen, relationships, dreamer, discovery>>

(***************************************************************************)
(* Foreground callers of the worker's database.                            *)
(***************************************************************************)
\* (content, context) pairs of the members of two projects, the name of one
\* a prefix of the name of the other
MemberInputs ==
    { <<<<"m">>, << <<ProjectKey, <<"str", <<"A">>>>>> >> >>,
      <<<<"m">>, << <<ProjectKey, <<"str", <<"A", "B">>>>>> >> >> }

\* the members of one project
OneProjectInputs == { <<<<"m">>, << <<ProjectKey, <<"str", <<"A">>>>>> >> >> }

\* (content, context) pairs of a member of a second project and of a node
\* that has no project
OtherInputs ==
    { <<<<"m">>, << <<ProjectKey, <<"str", <<"B">>>>>> >> >>,
      <<<<"m">>, <<>>>> }

\* the nodes foreground callers stored with this context
MembersStored(context) ==
    Cardinality({ i \in DOMAIN stored :
                    stored[i].by = "core" /\ stored[i].context = context })

\* a foreground store_memory of a member of a project
StoreMember(content, context) ==
    /\ MembersStored(context) < MaxMembers
    /\ StoreLater("core", content, context)
    /\ UNCHANGED <<svars, relationships>>

\* the methods class MemoryCore defines
CoreMethods ==
    { "store_memory", "query_memories", "recall_memory", "get_health_status" }

RoleKey == <<"r", "o", "l", "e">>

\* (content, context) pairs of test_context_based_search: two projects and
\* two roles
ContextInputs ==
    { <<<<"r">>, << <<ProjectKey, <<"str", <<"w">>>>>>,
                    <<RoleKey, <<"str", <<"f">>>>>> >> >>,
      <<<<"n">>, << <<ProjectKey, <<"str", <<"w">>>>>>,
                    <<RoleKey, <<"str", <<"b">>>>>> >> >>,
      <<<<"m">>, << <<ProjectKey, <<"str", <<"m">>>>>>,
                    <<RoleKey, <<"str", <<"f">>>>>> >> >> }

\* the filters the tests search by
ContextFilters ==
    { << <<ProjectKey, <<"str", <<"w">>>>>> >>,
      << <<RoleKey, <<"str", <<"f">>>>>> >> }

\* memory_core.search_by_context(filter) on a MemoryCore: the class defines
\* no attribute of that name, so looking it up raises AttributeError before
\* anything is called
SearchByContext(filter) ==
    /\ "search_by_context" \notin CoreMethods
    /\ ret' = [NoRet EXCEPT !.op = "search_by_context", !.via = "core",
                            !.query = filter, !.found = FALSE]
    /\ UNCHANGED <<nodes, now, conn, stored, gets, seen>>
    /\ UNCHANGED <<svars, relationships>>

\* a foreground store_memory of a node outside the project
StoreOther(content, context) ==
    /\ MembersStored(context) < MaxOthers
    /\ StoreLater("core", content, context)
    /\ UNCHANGED <<svars, relationships>>

(***************************************************************************)
(* Specifications.                                                         *)
(***************************************************************************)
\* the store and concurrent lookups on it
Next ==
    \/ Tick
    \/ \E in \in StoreInputs : StoreMemory(in[1], in[2])
    \/ \E c \in Conns, id \in ProbeIds : GetSelect(c, id)
    \/ \E c \in Conns : GetNow(c)
    \/ \E c \in Conns : GetUpdate(c)

Spec == Init /\ [][Next]_vars

\* searches of a store that is written and read by one caller at a time
NextSearch ==
    \/ Tick
    \/ \E in \in SearchInputs : StoreMemory(in[1], in[2])
    \/ \E id \in ProbeIds : RecallMemory(id)
    \/ \E q \in Queries, n \in CoreLimits : QueryMemories(q, n)

SpecSearch == Init /\ [][NextSearch]_vars

\* the adapters' entry points to the search
NextAdapters ==
    \/ \E in \in SearchInputs : StoreMemory(in[1], in[2])
    \/ \E q \in Queries, n \in AdapterLimits : RestQueryMemories(q, n)
    \/ \E q \in Queries, n \in AdapterLimits : McpQueryMemories(q, n)

SpecAdapters == Init /\ [][NextAdapters]_vars

\* the outcomes of a statement of the worker: it returned, or it raised
Outcomes == BOOLEAN

\* a step of start() of loop l, its statements ending as outcomes allows
LoopStep(l, outcomes) ==
    \/ DreamerStart(l)
    \/ \E ok \in outcomes : CycleStats(l, ok)
    \/ \E ok \in outcomes : DiscoverRelationships(l, ok)
    \/ \E ok \in outcomes : CreateSummaries(l, ok)
    \/ \E ok \in outcomes : CheckSummary(l, ok)
    \/ \E ok \in outcomes : StoreSummary(l, ok)
    \/ Wake(l)

\* a step of the task the manager wrapped start() in, which can be cancelled
TaskStep(l, outcomes) ==
    \/ LoopStep(l, outcomes)
    \/ DeliverCancel(l)

\* one background loop, started by its manager or directly, stopped by its
\* manager, beside foreground stores of the members of one project
NextScheduler ==
    \/ \E in \in OneProjectInputs : StoreMember(in[1], in[2])
    \/ \E config \in Configs : ManagerStart(1, config)
    \/ \E enabled \in BOOLEAN : RunDreamer(1, enabled, DefaultInterval)
    \/ TaskStep(1, Outcomes)
    \/ ManagerStop(1)
    \/ ManagerStopReturn(1)

SpecScheduler == Init /\ [][NextScheduler]_vars

\* the loop under fair scheduling: the event loop runs a task that can
\* run, and a sleep that is not cancelled expires
SpecSchedulerLive == SpecScheduler /\ WF_vars(TaskStep(1, Outcomes))

\* one background loop whose statements do not fail, beside foreground
\* stores of the members of two projects
NextSummaries ==
    \/ \E in \in MemberInputs : StoreMember(in[1], in[2])
    \/ RunDreamer(1, TRUE, DefaultInterval)
    \/ LoopStep(1, {TRUE})

SpecSummaries == Init /\ [][NextSummaries]_vars

\* two background loops on one database, beside foreground stores of the
\* members of one project
NextDreamers ==
    \/ \E in \in OneProjectInputs : StoreMember(in[1], in[2])
    \/ \E l \in Loops : RunDreamer(l, TRUE, DefaultInterval)
    \/ \E l \in Loops : LoopStep(l, {TRUE})

SpecDreamers == Init /\ [][NextDreamers]_vars

\* one background loop, its statements free to fail, beside foreground
\* stores and lookups of the members of one project
NextCycle ==
    \/ \E in \in OneProjectInputs : StoreMember(in[1], in[2])
    \/ \E id \in 1..MaxMembers : RecallMemory(id)
    \/ RunDreamer(1, TRUE, DefaultInterval)
    \/ LoopStep(1, Outcomes)

SpecCycle == Init /\ [][NextCycle]_vars

\* (content, context) pairs whose scores differ in every term: contents
\* that share all, some or none of their words, whatever their case;
\* contexts with and without project and type, and with a third key whose
\* values 1 and true compare equal
ScorerContents == { <<"a", " ", "b">>, <<"A">>, <<"b">> }

ScorerContexts ==
    { <<>>,
      << <<ProjectKey, <<"str", <<"A">>>>>> >>,
      << <<TypeKey, <<"str", <<"t">>>>>> >>,
      << <<ProjectKey, <<"str", <<"A">>>>>>, <<TypeKey, <<"str", <<"t">>>>>>,
         <<<<"k">>, <<"int", <<"1">>>>>> >>,
      << <<ProjectKey, <<"str", <<"B">>>>>>, <<TypeKey, <<"str", <<"t">>>>>>,
         <<<<"k">>, <<"bool", <<"t", "r", "u", "e">>>>>> >> }

ScorerInputs == ScorerContents \X ScorerContexts

\* the first discovery of a worker on a store of two nodes
NextScorer ==
    \/ \E in \in ScorerInputs : StoreMemory(in[1], in[2])
    \/ RunDreamer(1, TRUE, DefaultInterval)
    \/ DreamerStart(1)
    \/ CycleStats(1, TRUE)
    \/ DiscoverSample(1, TRUE)
    \/ ScorePair(1)

SpecScorer == Init /\ [][NextScorer]_vars

\* the first discovery of a worker on a store of the members of a project
NextDiscovery ==
    \/ \E in \in OneProjectInputs : StoreMember(in[1], in[2])
    \/ RunDreamer(1, TRUE, DefaultInterval)
    \/ DreamerStart(1)
    \/ CycleStats(1, TRUE)
    \/ DiscoverSample(1, TRUE)
    \/ ScorePair(1)

SpecDiscovery == Init /\ [][NextDiscovery]_vars

\* one background loop whose statements do not fail, beside foreground
\* stores of the members of a project, of a member of a second project and
\* of a node without a project
NextGroups ==
    \/ \E in \in OneProjectInputs : StoreMember(in[1], in[2])
    \/ \E in \in OtherInputs : StoreOther(in[1], in[2])
    \/ RunDreamer(1, TRUE, DefaultInterval)
    \/ LoopStep(1, {TRUE})

SpecGroups == Init /\ [][NextGroups]_vars

\* one background loop started without a manager, stopped with stop() or
\* cancelled by the holder of its task, beside foreground stores of the
\* members of one project
NextWorker ==
    \/ \E in \in OneProjectInputs : StoreMember(in[1], in[2])
    \/ RunDreamer(1, TRUE, DefaultInterval)
    \/ TaskStep(1, Outcomes)
    \/ DreamerStop(1)
    \/ CancelTask(1)

SpecWorker == Init /\ [][NextWorker]_vars

\* one DreamerManager, its start() and stop() called in any order, and the
\* tasks it created, beside foreground stores of the members of one project
NextManager ==
    \/ \E in \in OneProjectInputs : StoreMember(in[1], in[2])
    \/ \E config \in Configs : ManagerStart(1, config)
    \/ ManagerStartAgain(1, 2)
    \/ \E l \in Loops : TaskStep(l, Outcomes)
    \/ \E l \in Loops : ManagerStop(l)
    \/ \E l \in Loops : ManagerStopReturn(l)

SpecManager == Init /\ [][NextManager]_vars

\* the searches and the health reports of a store that is written and read
\* by one caller at a time
NextReads ==
    \/ Tick
    \/ \E in \in SearchInputs : StoreMemory(in[1], in[2])
    \/ \E id \in ProbeIds : RecallMemory(id)
    \/ \E q \in Queries, n \in CoreLimits : QueryMemories(q, n)
    \/ GetHealthStatus

SpecReads == Init /\ [][NextReads]_vars

\* the context searches of the tests on the store they filled
NextContext ==
    \/ Tick
    \/ \E in \in ContextInputs : StoreMemory(in[1], in[2])
    \/ \E filter \in ContextFilters : SearchByContext(filter)

SpecContext == Init /\ [][NextContext]_vars

(***************************************************************************)
(* Properties.                                                             *)
(***************************************************************************)
\* the arguments of the store_memory call that returned id
StoredAs(id) == stored[CHOOSE i \in DOMAIN stored : stored[i].id = id]

\* the step returned a node from get_memory
GetReturned == ret.op = "get" /\ ret.found

\* C1: recall_memory(store_memory(content, context)) returns the content
\* and the context that were stored, whatever was stored or recalled in
\* between.
C1_RecallReturnsStored ==
    GetReturned =>
        LET r == RecallResult(ret.out[1])
        IN  /\ r.id = ret.id
            /\ r.content = StoredAs(ret.id).content
            /\ DictEq(r.context, StoredAs(ret.id).context)

\* a recall of the first node, whose context holds an escaped string, an
\* integer and a boolean, after a second node was stored
C1_Witness ==
    /\ GetReturned
    /\ ret.id = 1
    /\ Len(nodes) = 2
    /\ Len(ret.out[1].context) = 3
    /\ DictGet(ret.out[1].context, <<"k">>) = <<"str", <<"a", "\"", "\\">>>>

\* C2: store_memory with empty content fails and persists no node, so no
\* stored node has empty content.
C2_NoEmptyContentStored ==
    \A i \in DOMAIN nodes : nodes[i].content # EmptyText

\* C3: a step that changes a stored node is a successful recall of it: it
\* raises its access_count by exactly 1 and does not move its
\* last_accessed_at back.
C3_RecallCountsAndAdvances ==
    [][\A i \in DOMAIN nodes :
         nodes'[i] # nodes[i] =>
           /\ nodes'[i].access_count = nodes[i].access_count + 1
           /\ FromIsoFormat(nodes'[i].last_accessed_at)
                >= FromIsoFormat(nodes[i].last_accessed_at)]_vars

\* C4: no lost updates: the stored access_count of a node is its initial 0
\* plus the number of get_memory calls that returned it, in every
\* interleaving of the calls' SELECT and UPDATE.
C4_NoLostUpdates ==
    \A i \in DOMAIN nodes : nodes[i].access_count = gets[i]

\* two lookups of one node that both read access_count 0 have both returned
C4_Witness ==
    \E i \in DOMAIN nodes : gets[i] = 2 /\ seen[i] = {1}

\* C5: the node get_memory returns carries the access_count stored right
\* after that call's own UPDATE, so the calls that returned a node returned
\* pairwise different counts.
C5_ReturnReflectsNewCount ==
    /\ GetReturned => ret.out[1].access_count = ret.after
    /\ \A i \in DOMAIN nodes : Cardinality(seen[i]) = gets[i]

\* C6: a lookup of an id no stored node has returns None and changes no
\* node; a lookup that returns None was of such an id.
C6_UnknownIdNotFound ==
    [][ret'.op = "get" =>
         /\ ret'.id \notin Ids =>
              /\ ~ret'.found
              /\ ret'.out = <<>>
              /\ nodes' = nodes
              /\ gets' = gets
         /\ ~ret'.found => ret'.id \notin Ids]_vars

\* a lookup of an unknown id returned None while a node that had been
\* recalled was stored
C6_Witness ==
    /\ ret.op = "get"
    /\ ~ret.found
    /\ ret.id \notin Ids
    /\ \E i \in DOMAIN nodes : nodes[i].access_count > 0

\* a search returned
QueryReturned == ret.op = "query"

\* m1 is not after m2 by priority_score descending, then last_accessed_at
\* descending, the timestamps compared as times
NotAfter(m1, m2) ==
    \/ m1.priority_score > m2.priority_score
    \/ /\ m1.priority_score = m2.priority_score
       /\ m1.last_accessed_at >= m2.last_accessed_at

\* C7: a search for the empty query with limit N >= 0 returns the first N
\* of all stored nodes by priority_score descending, then last_accessed_at
\* descending: at most N nodes, in that order.
C7_EmptyQueryFirstN ==
    (QueryReturned /\ ret.query = EmptyText /\ ret.limit >= 0) =>
        LET out == ret.out
            all == { NodeOfRow(nodes[i]) : i \in DOMAIN nodes }
        IN  /\ Len(out) <= ret.limit
            /\ Len(out) = IF ret.limit < Len(nodes) THEN ret.limit ELSE Len(nodes)
            /\ \A k \in DOMAIN out : out[k] \in all
            /\ \A j, k \in DOMAIN out :
                 j < k => out[j].id # out[k].id /\ NotAfter(out[j], out[k])
            /\ \A m \in all :
                 (\A k \in DOMAIN out : out[k].id # m.id) =>
                     \A k \in DOMAIN out : NotAfter(out[k], m)

\* a search with limit 1 returned the first of two nodes, which was recalled
\* a fraction of a second after the second was stored in the same second
C7_Witness ==
    /\ QueryReturned /\ ret.query = EmptyText /\ ret.limit = 1
    /\ Len(nodes) = 2
    /\ Len(ret.out) = 1 /\ ret.out[1].id = 1
    /\ LET t1 == FromIsoFormat(nodes[1].last_accessed_at)
           t2 == FromIsoFormat(nodes[2].last_accessed_at)
       IN  t2 < t1 /\ t1 \div TicksPerSecond = t2 \div TicksPerSecond
                   /\ t2 % TicksPerSecond = 0

\* the stored row of a returned node holds query as a case-sensitive
\* literal run of characters, in its content or its context column
HoldsLiterally(row, query) ==
    Contains(row.content, query) \/ Contains(row.context, query)

\* C8: every node a search returns holds the query as a case-sensitive
\* literal substring of its content or of its serialized context.
C8_ResultsHoldQueryLiterally ==
    QueryReturned =>
        \A k \in DOMAIN ret.out :
            HoldsLiterally(nodes[RowIndex(ret.out[k].id)], ret.query)

\* C9: when at most limit stored nodes hold the query in their content or
\* serialized context, the search returns every one of them.
C9_SearchComplete ==
    LET holding == { i \in DOMAIN nodes : HoldsLiterally(nodes[i], ret.query) }
    IN  (QueryReturned /\ Cardinality(holding) <= ret.limit) =>
            \A i \in holding : \E k \in DOMAIN ret.out : ret.out[k].id = nodes[i].id

\* C10: the limit the core search receives from an adapter's query_memories
\* entry point is within [1, 100], whatever limit the caller supplied.
C10_AdapterLimitClamped ==
    (QueryReturned /\ ret.via \in {"rest", "mcp"}) =>
        (MinLimit <= ret.limit /\ ret.limit <= MaxLimit)

\* the rows whose context holds project under the key project: the member
\* nodes of the project
MembersOf(project) ==
    { i \in DOMAIN nodes : DictGet(ContextOfRow(nodes[i]), ProjectKey) = project }

\* the projects that have 3 member nodes or more
EligibleProjects ==
    { project \in { DictGet(ContextOfRow(nodes[i]), ProjectKey) : i \in DOMAIN nodes } :
        Truthy(project) /\ Cardinality(MembersOf(project)) >= MinGroup }

\* the last summary run of loop l went through all its groups, and nothing
\* was stored since it read its working set other than its own summaries
Quiet(l) ==
    dreamer[l].run.complete /\ dreamer[l].run.swept = Len(nodes)

\* C11: the summary step is idempotent: after a complete run with no
\* foreground write since, every project with at least 3 member nodes has
\* exactly one summary node, also when one project name is a prefix of
\* another (so that a further run has nothing to create).
C11_OneSummaryPerEligibleProject ==
    Quiet(1) =>
        \A project \in EligibleProjects : Cardinality(SummariesOf(project)) = 1

\* text begins with prefix
StartsWith(text, prefix) ==
    Len(text) >= Len(prefix) /\ SubSeq(text, 1, Len(prefix)) = prefix

\* C12: a complete run of the summary step has stored, for every project
\* that had at least 3 members in its working set and no summary, exactly
\* one new node, whose content starts with "Summary of {project}" and whose
\* context.summarized_count is the number of members of the group.
C12_RunStoresOneSummaryPerDueProject ==
    dreamer[1].run.complete =>
        \A g \in dreamer[1].run.due :
            LET new == { i \in SummariesOf(g.project) : i > dreamer[1].run.from }
            IN  /\ Cardinality(new) = 1
                /\ \A i \in new :
                     /\ StartsWith(nodes[i].content, SummaryQuery(g.project))
                     /\ DictGet(ContextOfRow(nodes[i]), CountKey)
                          = <<"int", Decimal(g.count)>>

\* C13: for every project there is at most one summary node created by a
\* background task, in every interleaving of the cycles of the loops that
\* run against the store with each other and with foreground stores.
C13_AtMostOneSummaryPerProject ==
    \A i, j \in DOMAIN stored :
        (/\ stored[i].by = "dreamer"
         /\ stored[j].by = "dreamer"
         /\ DictGet(stored[i].context, ProjectKey)
              = DictGet(stored[j].context, ProjectKey)) => i = j

\* the task is inside _process_cycle
InCycle(pc) == pc \in {"stats", "discover", "summaries", "check", "store"}

\* C14: a cycle that raises does not end the loop: from inside a cycle the
\* task goes on in the cycle or into a sleep, never out of start(); the
\* sleep after an error is the fixed 60, not the configured interval; and
\* the backoff sleep ends in another cycle unless a stop was requested.
C14_FailedCycleBacksOffAndRetries ==
    [][LET d == dreamer[1]
           e == dreamer'[1]
       IN  /\ InCycle(d.pc) => (InCycle(e.pc) \/ e.pc \in {"sleep", "backoff"})
           /\ (e.pc = "backoff" /\ d.pc # "backoff") =>
                (InCycle(d.pc) /\ e.sleep = Backoff /\ e.running = d.running)
           /\ (d.pc = "backoff" /\ e.pc # "backoff") =>
                (e.pc = "stats" \/ ~d.running \/ d.must_cancel)]_vars

\* the first cycle of a loop raised, and after the backoff the loop is at
\* the start of another cycle
C14_Witness ==
    /\ dreamer[1].failed
    /\ dreamer[1].pc = "stats"
    /\ dreamer[1].last_run = None
    /\ dreamer[1].running

\* loop 1 was started enabled
StartedEnabled == dreamer[1].exists /\ dreamer[1].enabled

\* stop() of the manager of loop 1 was called
StopRequested == manager[1].pc \in {"awaiting", "stopped", "raised"}

\* C15: if the scheduler is enabled and started and never stopped or
\* cancelled, then under fair scheduling a new discovery cycle starts
\* infinitely often, whichever of its cycles fail.
C15_KeepsCycling ==
    (<>StartedEnabled /\ []~StopRequested) => []<>(dreamer[1].pc = "stats")

\* a cycle starts after a cycle that raised and a cycle that completed,
\* with no stop requested
C15_Witness ==
    /\ dreamer[1].pc = "stats"
    /\ dreamer[1].failed
    /\ dreamer[1].last_run # None
    /\ ~StopRequested

\* C16: when DreamerManager.stop() is called while the task is in its
\* inter-cycle sleep, the task is cancelled in that sleep and returns from
\* it: it is never again inside a cycle, and it does not wait for the sleep
\* to expire.
C16_StopInSleepEndsTask ==
    manager[1].at = "sleep" =>
        \/ /\ dreamer[1].pc = "sleep"
           /\ dreamer[1].must_cancel
           /\ manager[1].pc = "awaiting"
        \/ /\ dreamer[1].pc = "returned"
           /\ manager[1].pc \in {"awaiting", "stopped"}

\* stop() was called in the sleep after a completed cycle and has returned
C16_Witness ==
    /\ manager[1].at = "sleep"
    /\ manager[1].pc = "stopped"
    /\ dreamer[1].pc = "returned"
    /\ dreamer[1].last_run # None

\* C17: when the cancellation arrives while the task is in the error
\* backoff sleep, the task ends there, without another cycle, and stop()
\* returns normally: the CancelledError its await raises does not escape.
C17_CancelInBackoffEndsTask ==
    /\ manager[1].pc # "raised"
    /\ manager[1].at = "backoff" =>
        \/ /\ dreamer[1].pc = "backoff"
           /\ dreamer[1].must_cancel
           /\ manager[1].pc = "awaiting"
        \/ /\ dreamer[1].pc = "cancelled"
           /\ manager[1].pc \in {"awaiting", "stopped"}

\* stop() was called in the backoff after a cycle that raised, the task
\* ended with the CancelledError, and stop() has returned
C17_Witness ==
    /\ manager[1].at = "backoff"
    /\ manager[1].pc = "stopped"
    /\ dreamer[1].pc = "cancelled"
    /\ dreamer[1].failed

C19_DisabledDoesNothing ==
    /\ (manager[1].pc # "idle" /\ ~manager[1].enabled) =>
          /\ ~manager[1].task
          /\ ~manager[1].dreamer
          /\ dreamer[1] = NoDreamer
    /\ (dreamer[1].exists /\ ~dreamer[1].enabled) =>
          /\ ~dreamer[1].running
          /\ dreamer[1].pc \in {"created", "returned"}
          /\ dreamer[1].last_run = None
          /\ dreamer[1].run = NoRun
          /\ ~dreamer[1].failed
          /\ \A i \in DOMAIN stored : stored[i].by # "dreamer"

\* the start() of a disabled DreamerAI has returned, beside a store that
\* holds the 3 members of a project
C19_Witness ==
    /\ dreamer[1].exists
    /\ ~dreamer[1].enabled
    /\ dreamer[1].pc = "returned"
    /\ Len(nodes) = MinGroup

\* C20: a cycle that finds fewer than 2 stored nodes is a completed no-op:
\* unless get_health_status raises, it changes no node, sets last_run and
\* goes into the sleep of the configured interval, not the backoff.
C20_SmallStoreCycleIsNoOp ==
    [][LET d == dreamer[1]
           e == dreamer'[1]
       IN  (/\ d.pc = "stats"
            /\ e # d
            /\ Len(nodes) < MinMemories
            /\ e.pc # "backoff") =>
               /\ e.pc = "sleep"
               /\ e.sleep = d.interval
               /\ e.last_run = now'
               /\ e.failed = d.failed
               /\ nodes' = nodes]_vars

\* a loop is in its interval sleep after a cycle on a store of one node
C20_Witness ==
    /\ dreamer[1].pc = "sleep"
    /\ dreamer[1].sleep = dreamer[1].interval
    /\ dreamer[1].last_run # None
    /\ ~dreamer[1].failed
    /\ Len(nodes) = 1

\* the rows of before are the first rows of after, unchanged
KeepsRows(before, after) ==
    /\ Len(after) >= Len(before)
    /\ SubSeq(after, 1, Len(before)) = before

\* C21: a discovery cycle is purely additive: a step of the worker leaves
\* every stored row as it is, last_accessed_at and access_count included,
\* and the only rows it adds are summary nodes.
C21_CycleIsAdditive ==
    [][dreamer' # dreamer =>
         /\ KeepsRows(nodes, nodes')
         /\ \A i \in DOMAIN nodes' \ DOMAIN nodes :
              /\ stored'[i].by = "dreamer"
              /\ DictGet(ContextOfRow(nodes'[i]), TypeKey) =
                     DictGet(SummaryContext(<<>>, <<>>), TypeKey)]_vars

\* a cycle has stored a summary and returned, in a store that holds a node
\* with lookups counted
C21_Witness ==
    /\ dreamer[1].pc = "sleep"
    /\ \E i \in DOMAIN stored : stored[i].by = "dreamer"
    /\ \E i \in DOMAIN nodes : nodes[i].access_count = MaxAccess

\* the fields of a row no statement of the program updates
FrameOf(row) ==
    [ id |-> row.id, content |-> row.content, context |-> row.context,
      created_at |-> row.created_at, priority_score |-> row.priority_score,
      node_type |-> row.node_type ]

\* C22: a successful recall_memory(id) changes nothing but last_accessed_at
\* and access_count of the node id; no step removes a row or changes
\* another field of a row.
C22_RecallChangesAccessFieldsOnly ==
    [][/\ Len(nodes') >= Len(nodes)
       /\ \A i \in DOMAIN nodes : FrameOf(nodes'[i]) = FrameOf(nodes[i])
       /\ (ret'.op = "get" /\ ret'.found) =>
             /\ Len(nodes') = Len(nodes)
             /\ \A i \in DOMAIN nodes :
                  nodes[i].id # ret'.id => nodes'[i] = nodes[i]]_vars

\* a lookup returned the first of two nodes, both with a lookup counted
C22_Witness ==
    /\ GetReturned
    /\ ret.id = 1
    /\ Len(nodes) = 2
    /\ nodes[1].access_count = 2
    /\ nodes[2].access_count = 1

\* C23: right after store_memory the new node has access_count 0,
\* priority_score 1.0, node_type "normal" and last_accessed_at equal to
\* created_at.
C23_NewNodeDefaults ==
    (ret.op = "store" /\ ret.found) =>
        LET row == nodes[RowIndex(ret.id)]
        IN  /\ row.access_count = 0
            /\ row.priority_score = DefaultPriority
            /\ row.node_type = "normal"
            /\ row.last_accessed_at = row.created_at

C25_AccessFieldsMonotone ==
    [][/\ \A i \in DOMAIN nodes' :
            FromIsoFormat(nodes'[i].last_accessed_at) >=
                FromIsoFormat(nodes'[i].created_at)
       /\ \A i \in DOMAIN nodes :
            nodes'[i].access_count >= nodes[i].access_count]_vars

\* a node looked up twice, the last time after the tick it was created in
C25_Witness ==
    \E i \in DOMAIN nodes :
        /\ nodes[i].access_count = 2
        /\ FromIsoFormat(nodes[i].last_accessed_at) >
               FromIsoFormat(nodes[i].created_at)

\* C26: get_health_status reports as memory_count the number of nodes
\* stored so far, summaries of the workers included, and as graph_size
\* memory_count + relationship_count; memory_count never goes down.
C26_HealthCountsStoredNodes ==
    [][/\ HealthStatus'.memory_count = Len(stored')
       /\ HealthStatus'.graph_size =
              HealthStatus'.memory_count + MemoryStats'.relationship_count
       /\ HealthStatus'.memory_count >= HealthStatus.memory_count]_vars

\* the store holds the members of a project and a summary of a worker
C26_Witness ==
    /\ HealthStatus.memory_count = MaxMembers + 1
    /\ \E i \in DOMAIN stored : stored[i].by = "dreamer"

\* the pairs the discovery of loop 1 has scored: the two dicts, and what
\* the log has of them
ScoredPairs ==
    { [ memory1 |-> discovery[1].sample[discovery[1].log[i].memory1],
        memory2 |-> discovery[1].sample[discovery[1].log[i].memory2],
        score   |-> discovery[1].log[i].score,
        type    |-> discovery[1].log[i].type ] : i \in DOMAIN discovery[1].log }

\* both contexts hold key, with equal values
SameUnder(key, memory1, memory2) ==
    /\ key \in Keys(memory1.context) \cap Keys(memory2.context)
    /\ PyEq(DictGet(memory1.context, key), DictGet(memory2.context, key))

\* C27: a pair is classified project_related only if both contexts hold
\* project with equal values; otherwise type_similar only if both hold
\* type with equal values; otherwise semantic.
C27_CategoryNeedsPresentEqualValues ==
    \A e \in ScoredPairs :
        e.type # "none" =>
            e.type = IF SameUnder(ProjectKey, e.memory1, e.memory2)
                     THEN "project_related"
                     ELSE IF SameUnder(TypeKey, e.memory1, e.memory2)
                     THEN "type_similar"
                     ELSE "semantic"

\* C28: a discovery on n >= 2 memories scores min(10, n(n-1)/2) pairs, each
\* of two different memories, and no unordered pair twice.
C28_PairsDistinct ==
    LET n   == Len(discovery[1].sample)
        log == discovery[1].log
        all == (n * (n - 1)) \div 2
    IN  /\ (dreamer[1].pc = "summaries" /\ n >= 2) =>
               Len(log) = IF all < 10 THEN all ELSE 10
        /\ \A i \in DOMAIN log : log[i].memory1 # log[i].memory2
        /\ \A i, j \in DOMAIN log :
               i # j => {log[i].memory1, log[i].memory2} #
                            {log[j].memory1, log[j].memory2}

\* C29: the score of a pair is the score of the pair swapped, and it is
\* within [0, 1] also where the sum of its terms is above 1.
C29_ScoreSymmetricAndBounded ==
    \A e \in ScoredPairs :
        /\ e.score = AnalyzeRelationship(e.memory2, e.memory1)
        /\ e.score.den > 0
        /\ 0 <= e.score.num
        /\ e.score.num <= e.score.den

\* a pair was scored whose terms add up to more than 1
C29_Witness ==
    \E e \in ScoredPairs :
        /\ ScoreSum(e.memory1, e.memory2, e.score.den) > e.score.den
        /\ e.score.num = e.score.den

\* the pairs of C30: the same project and the same type in both contexts,
\* a content word in common, created less than 24 hours apart
Related(e) ==
    /\ ProjectKey \in Keys(e.memory1.context) \cap Keys(e.memory2.context)
    /\ DictGet(e.memory1.context, ProjectKey) = DictGet(e.memory2.context, ProjectKey)
    /\ TypeKey \in Keys(e.memory1.context) \cap Keys(e.memory2.context)
    /\ DictGet(e.memory1.context, TypeKey) = DictGet(e.memory2.context, TypeKey)
    /\ Words(e.memory1) \cap Words(e.memory2) # {}
    /\ WithinDay(e.memory1, e.memory2)

\* C30: such a pair scores at least 0.2 + 0.5 * Jaccard + 0.1, capped at
\* 1.0, and is classified project_related.
C30_RelatedPairScore ==
    \A e \in ScoredPairs :
        Related(e) =>
            LET shared == Cardinality(Words(e.memory1) \cap Words(e.memory2))
                union  == Cardinality(Words(e.memory1) \cup Words(e.memory2))
                den    == 10 * union
                bound  == 2 * union + 5 * shared + 1 * union
            IN  /\ e.score.den = den
                /\ e.score.num >= (IF bound < den THEN bound ELSE den)
                /\ e.type = "project_related"

\* such a pair was scored, its contents sharing one word of two
C30_Witness ==
    \E e \in ScoredPairs :
        /\ Related(e)
        /\ Cardinality(Words(e.memory1) \cap Words(e.memory2)) = 1
        /\ Cardinality(Words(e.memory1) \cup Words(e.memory2)) = 2
        /\ e.score.num < e.score.den

\* C31: discovery never persists a relationship: relationship_count is 0
\* in every state, and graph_size equals memory_count.
C31_NoRelationshipPersisted ==
    /\ MemoryStats.relationship_count = 0
    /\ HealthStatus.graph_size = HealthStatus.memory_count

\* a discovery has scored a pair above the threshold and logged it
C31_Witness ==
    /\ dreamer[1].pc = "summaries"
    /\ \E e \in ScoredPairs : e.type # "none"
    /\ HealthStatus.memory_count = 2

\* C32: every stored node has priority_score 1.0, so a search is ordered
\* by last_accessed_at alone, and the node a lookup has just returned is
\* the first result of the empty-query search that follows.
C32_RecalledNodeComesFirst ==
    [][/\ \A i \in DOMAIN nodes' : nodes'[i].priority_score = DefaultPriority
       /\ (/\ GetReturned
           /\ ret'.op = "query"
           /\ ret'.query = EmptyText
           /\ ret'.limit >= 1) => ret'.out[1].id = ret.id]_vars

\* the row's context holds every key/value pair of the filter
ContextHolds(row, filter) ==
    \A i \in DOMAIN filter :
        \E j \in DOMAIN ContextOfRow(row) : ContextOfRow(row)[j] = filter[i]

\* C33: search_by_context(filter) returns exactly the stored memories whose
\* context holds every key/value pair of the filter, so a non-empty result
\* whenever a stored memory matches
C33_ContextSearchReturnsMatches ==
    ret.op = "search_by_context" =>
        /\ ret.found
        /\ { ret.out[i].id : i \in DOMAIN ret.out }
             = { nodes[i].id : i \in { j \in DOMAIN nodes :
                                          ContextHolds(nodes[j], ret.query) } }

\* the row is the summary of a project other than this one
SummaryOfOther(row, project) ==
    LET other == DictGet(ContextOfRow(row), ProjectKey)
    IN  /\ Truthy(other)
        /\ other # project
        /\ StartsWith(row.content, SummaryQuery(other))

\* C34: the creation of a project's summary is skipped only when the content
\* of some node begins with "Summary of {project}", the summary of another
\* project whose name begins with this one's not counting.
C34_SkipNeedsSummaryOfProject ==
    [][(/\ dreamer[1].pc = "check"
        /\ dreamer'[1] # dreamer[1]
        /\ dreamer'[1].pc # "store") =>
           LET project == dreamer[1].groups[1].project
           IN  \E i \in DOMAIN nodes :
                   /\ StartsWith(nodes[i].content, SummaryQuery(project))
                   /\ ~SummaryOfOther(nodes[i], project)]_vars

\* the rows of the working set of the summary run of loop l that hold
\* project under the key project
WorkingMembers(l, project) ==
    { i \in 1..dreamer[l].run.from :
        DictGet(ContextOfRow(nodes[i]), ProjectKey) = project }

\* C35: a summary is stored only for a project that has 3 member nodes or
\* more in the working set of the cycle; a group holds the nodes of the
\* working set that carry its project and no others, so a node without a
\* project is in no group; and a cycle stores at most one summary per
\* project.
C35_SummaryNeedsThreeMembers ==
    [][/\ (/\ Len(stored') > Len(stored)
           /\ stored'[Len(stored')].by = "dreamer") =>
              LET project == DictGet(stored'[Len(stored')].context, ProjectKey)
              IN  /\ Truthy(project)
                  /\ Cardinality(WorkingMembers(1, project)) >= MinGroup
                  /\ \A i \in DOMAIN stored :
                         (i > dreamer[1].run.from /\ stored[i].by = "dreamer")
                             => DictGet(stored[i].context, ProjectKey) # project
       /\ (dreamer[1].pc = "summaries" /\ dreamer'[1].pc = "check") =>
              \A g \in DOMAIN dreamer'[1].groups :
                  LET group == dreamer'[1].groups[g]
                  IN  /\ Truthy(group.project)
                      /\ Len(group.memories)
                           = Cardinality({ i \in DOMAIN nodes :
                               DictGet(ContextOfRow(nodes[i]), ProjectKey)
                                   = group.project })]_vars

\* a summary was stored in a cycle whose working set held a node without a
\* project and a project with fewer than 3 members
C35_Witness ==
    /\ \E i \in DOMAIN stored :
         /\ i > dreamer[1].run.from
         /\ stored[i].by = "dreamer"
    /\ \E i \in 1..dreamer[1].run.from :
         ~Truthy(DictGet(ContextOfRow(nodes[i]), ProjectKey))
    /\ \E i \in 1..dreamer[1].run.from :
         LET project == DictGet(ContextOfRow(nodes[i]), ProjectKey)
         IN  /\ Truthy(project)
             /\ Cardinality(WorkingMembers(1, project)) < MinGroup

\* C36: once stop() of a DreamerAI was called no new cycle begins, wherever
\* start() was when it was called: in a cycle, in the interval sleep, in
\* the backoff sleep, or not yet at its first statement.
C36_NoCycleAfterStop ==
    [][dreamer[1].stopped =>
          ~(dreamer[1].pc # "stats" /\ dreamer'[1].pc = "stats")]_vars

\* C37: when the loop of start() has exited, by the stop flag or by a
\* cancellation in the interval sleep or in the backoff sleep, get_status()
\* reports running False; and last_run changes only where a cycle that did
\* not raise ends.
C37_StatusFollowsLoop ==
    [][/\ Ended(dreamer'[1].pc) => ~dreamer'[1].running
       /\ dreamer'[1].last_run # dreamer[1].last_run =>
              /\ InCycle(dreamer[1].pc)
              /\ dreamer'[1].pc = "sleep"
              /\ dreamer'[1].failed = dreamer[1].failed]_vars

\* the loops whose task was created and has not ended
LiveLoops == { l \in Loops : dreamer[l].exists /\ ~Ended(dreamer[l].pc) }

\* C38: a DreamerManager has at most one loop that has not ended, whatever
\* the sequence of its start() and stop() calls, start() twice with no
\* stop() between included; and once its stop() has returned none of the
\* loops it started is left.
C38_OneLoopPerManager ==
    /\ Cardinality(LiveLoops) <= 1
    /\ (\E l \in Loops : manager[l].pc = "stopped") => LiveLoops = {}

\* C39: query_memories and get_health_status are read-only: a step that
\* returns from either leaves the rows of memory_nodes as they were, the
\* access_count and last_accessed_at of the rows a search returned included.
C39_ReadsChangeNothing ==
    [][ret'.op \in {"query", "health"} =>
          /\ nodes' = nodes
          /\ relationships' = relationships]_vars

\* a search returned a node that had been recalled before, its row still
\* counting the recall and nothing more
C39_Witness ==
    /\ ret.op = "query"
    /\ ret.out # <<>>
    /\ nodes[RowIndex(ret.out[1].id)].access_count = 1
    /\ gets[RowIndex(ret.out[1].id)] = 1

====
